---- MODULE Spec2Model ----
(***************************************************************************)
(* Model of breadx's error module (src/error.rs): the BreadError taxonomy, *)
(* the wire decoder BreadError::from_x_error, the Display implementations  *)
(* of BreadError and ErrorCode, StdError::source, and the shared ownership *)
(* of the I/O error wrapped by BreadError::Io.                             *)
(*                                                                         *)
(* Text is modelled as a sequence of one-character strings, so that        *)
(* "contains", "in this order" and "has a line break" are checkable.       *)
(***************************************************************************)
EXTENDS Integers, Sequences, FiniteSets, TLC

VARIABLES
    bytes,      \* decoder: the buffer handed to from_x_error
    host,       \* decoder: the target's native byte order (from_ne_bytes)
    session,    \* decoder: the byte order established for the connection
    decoded,    \* decoder: what the last from_x_error call produced
    err,        \* rendering: the BreadError value at hand
    text,       \* rendering: what `impl Display for BreadError` last wrote for err
    cause,      \* rendering: what source() last returned for err
    codeText,   \* rendering: what `impl Display for ErrorCode` last wrote for err's code
    vals,       \* ownership: the BreadError::Io values alive, by slot
    strong,     \* ownership: strong count of each Arc allocation
    heap,       \* ownership: the IoError objects on the heap, by allocation number
    allocs,     \* ownership: number of IoError objects ever placed on the heap
    convs       \* ownership: number of From<IoError> conversions performed

decodeVars == <<bytes, host, session, decoded>>
renderVars == <<err, text, cause, codeText>>
arcVars    == <<vals, strong, heap, allocs, convs>>
vars       == <<bytes, host, session, decoded, err, text, cause, codeText,
                vals, strong, heap, allocs, convs>>

(***************************************************************************)
(* Bounds                                                                  *)
(***************************************************************************)
\* longest buffer handed to the decoder (the protocol's error reply has 32 bytes)
MaxBufLen == 33
\* deepest chain of StaticErr references built
MaxDepth == 2
\* number of value slots that can hold a BreadError::Io at the same time
MaxVals == 4
\* number of platform I/O errors converted
MaxIo == 3

\* byte values written at the varied offsets; every other offset holds 0
ByteVals == {1, 200}
\* offsets whose content is varied: the six the decoder reads, and 0, 4, 11, 31
VariedOffsets == {0, 1, 2, 3, 4, 8, 9, 10, 11, 31}
ByteOrders == {"little", "big"}
\* the byte orders a connection can be set up with; the decoder is not told
\* which one was chosen
SessionOrders == {"little", "big"}

(***************************************************************************)
(* Wire decoder                                                            *)
(***************************************************************************)
NotCalled == [tag |-> "NotCalled"]
\* an out-of-range index or slice: the call unwinds and returns nothing
Panic == [tag |-> "Panic"]

\* bytes[off], for an offset inside the buffer
At(b, off) == b[off + 1]

\* u16::from_ne_bytes([b0, b1]) on a target of byte order h
u16_from_ne_bytes(b0, b1, h) ==
    IF h = "little" THEN b0 + 256 * b1 ELSE 256 * b0 + b1

\* mutant: the narrowing saturates instead of truncating
as_u8_saturating(n) == IF n > 255 THEN 255 ELSE n

\* `minor_code as _` with the field typed u8: keeps the low eight bits
as_u8(n) == n % 256

\* mutant: missing bytes default to zero instead of failing the call
from_x_error_defaulting(b, h) ==
    LET get(off) == IF off < Len(b) THEN At(b, off) ELSE 0
    IN  [tag        |-> "XProtocol",
         error_code |-> get(1),
         major_code |-> get(10),
         minor_code |-> as_u8(u16_from_ne_bytes(get(8), get(9), h)),
         sequence   |-> u16_from_ne_bytes(get(2), get(3), h)]

\* mutant: the reply's length is checked against 32 first
from_x_error_exact_len(b, h) ==
    IF Len(b) # 32 THEN Panic
    ELSE [tag        |-> "XProtocol",
          error_code |-> At(b, 1),
          major_code |-> At(b, 10),
          minor_code |-> as_u8(u16_from_ne_bytes(At(b, 8), At(b, 9), h)),
          sequence   |-> u16_from_ne_bytes(At(b, 2), At(b, 3), h)]

\* BreadError::from_x_error(bytes), statement by statement
from_x_error(b, h) ==
    IF Len(b) < 4 THEN Panic            \* &bytes[2..=3]
    ELSE IF Len(b) < 10 THEN Panic      \* &bytes[8..=9]
    ELSE IF Len(b) < 2 THEN Panic       \* b[1]
    ELSE IF Len(b) < 11 THEN Panic      \* b[10]
    ELSE [tag        |-> "XProtocol",
          error_code |-> At(b, 1),
          major_code |-> At(b, 10),
          minor_code |-> as_u8(u16_from_ne_bytes(At(b, 8), At(b, 9), h)),
          sequence   |-> u16_from_ne_bytes(At(b, 2), At(b, 3), h)]

\* the values a byte arriving at offset off may take
Arriving(off) == IF off \in VariedOffsets THEN ByteVals ELSE {0}

\* a reply one byte longer is decoded
DecodeLonger ==
    /\ Len(bytes) < MaxBufLen
    /\ \E v \in Arriving(Len(bytes)) : bytes' = Append(bytes, v)
    /\ decoded' = from_x_error(bytes', host)
    /\ UNCHANGED <<host, session>>

\* a reply one byte shorter is decoded
DecodeShorter ==
    /\ Len(bytes) > 0
    /\ bytes' = SubSeq(bytes, 1, Len(bytes) - 1)
    /\ decoded' = from_x_error(bytes', host)
    /\ UNCHANGED <<host, session>>

\* a reply differing in one byte is decoded
DecodeChanged ==
    /\ \E off \in VariedOffsets, v \in ByteVals :
          /\ off < Len(bytes)
          /\ At(bytes, off) # v
          /\ bytes' = [bytes EXCEPT ![off + 1] = v]
    /\ decoded' = from_x_error(bytes', host)
    /\ UNCHANGED <<host, session>>

(***************************************************************************)
(* Text                                                                    *)
(***************************************************************************)
DigitChars == <<"0", "1", "2", "3", "4", "5", "6", "7", "8", "9">>

\* `{}` of an unsigned integer (u8, u16): its decimal digits, most
\* significant first, no sign, no padding
RECURSIVE fmt_uint(_)
fmt_uint(n) ==
    IF n < 10 THEN <<DigitChars[n + 1]>>
    ELSE fmt_uint(n \div 10) \o <<DigitChars[(n % 10) + 1]>>

\* the strings a message, reason, type name, extension name or library name
\* is drawn from: "", "XTEST" and "a\nb"
Strs == {<<>>, <<"X","T","E","S","T">>, <<"a","\n","b">>}

\* the platform I/O errors wrapped: each renders as its own text
IoErrors ==
    {[tag |-> "IoError", text |-> <<"e","n","t","i","t","y"," ","n","o","t"," ","f","o","u","n","d">>],
     [tag |-> "IoError", text |-> <<"d","i","s","k","\n","f","u","l","l">>]}

(***************************************************************************)
(* ErrorCode                                                               *)
(***************************************************************************)
\* impl fmt::Display for ErrorCode
ErrorCode_fmt(code) ==
    CASE
         code = 1 -> <<"R","e","q","u","e","s","t">>
      [] code = 2 -> <<"V","a","l","u","e">>
      [] code = 3 -> <<"W","i","n","d","o","w">>
      [] code = 4 -> <<"P","i","x","m","a","p">>
      [] code = 5 -> <<"A","t","o","m">>
      [] code = 6 -> <<"C","u","r","s","o","r">>
      [] code = 7 -> <<"F","o","n","t">>
      [] code = 8 -> <<"M","a","t","c","h">>
      [] code = 9 -> <<"D","r","a","w","a","b","l","e">>
      [] code = 10 -> <<"A","c","c","e","s","s">>
      [] code = 11 -> <<"A","l","l","o","c">>
      [] code = 12 -> <<"C","o","l","o","r","m","a","p">>
      [] code = 13 -> <<"G","C","o","n","e","x","t">>
      [] code = 14 -> <<"I","D","C","h","o","i","c","e">>
      [] code = 15 -> <<"N","a","m","e">>
      [] code = 16 -> <<"L","e","n","g","t","h">>
      [] code = 17 -> <<"I","m","p","l","e","m","e","n","t","a","t","i","o","n">>
      [] OTHER -> fmt_uint(code)

(***************************************************************************)
(* BreadError                                                              *)
(***************************************************************************)
NotRendered == [tag |-> "NotRendered"]
NotAsked == [tag |-> "NotAsked"]
None == [tag |-> "None"]
Some(v) == [tag |-> "Some", val |-> v]

\* the values of the enum that hold no reference to another BreadError
BaseErrors ==
    {[tag |-> "StaticMsg", m |-> s] : s \in Strs}
    \cup {[tag |-> "Msg", m |-> s] : s \in Strs}
    \cup {[tag |-> "UnableToParseConnection"]}
    \cup {[tag |-> "UnableToOpenConnection"]}
    \cup {[tag |-> "Io", io |-> i] : i \in IoErrors}
    \cup {[tag |-> "FailedToConnect", reason |-> s] : s \in Strs}
    \cup {[tag |-> "FailedToAuthorize", reason |-> s] : s \in Strs}
    \cup {[tag |-> "BadObjectRead", name |-> n] :
             n \in {None} \cup {Some(s) : s \in Strs}}
    \cup {[tag |-> "ExtensionNotPresent", ext |-> s] : s \in Strs}
    \cup {[tag |-> "NoMatchingRequest", seq |-> q] : q \in {0, 12, 65535}}
    \cup {[tag |-> "XProtocol", error_code |-> c, minor_code |-> mi,
           major_code |-> ma, sequence |-> q] :
             c \in 0..255, mi \in {0, 255}, ma \in {55, 255}, q \in {12, 65535}}
    \cup {[tag |-> "ClosedConnection"]}
    \cup {[tag |-> "LoadLibraryFailed", l |-> s] : s \in Strs}

\* BreadError::StaticErr(&'static BreadError)
StaticErr(e) == [tag |-> "StaticErr", e |-> e]

\* number of StaticErr references passed before a value that holds none
RECURSIVE Depth(_)
Depth(e) == IF e.tag = "StaticErr" THEN 1 + Depth(e.e) ELSE 0

\* mutant: the referenced value is written with {:?}, inside the variant's name
fmt_StaticErr_debug(inner) ==
    <<"S","t","a","t","i","c","E","r","r","(">> \o inner \o <<")">>

\* Self::StaticErr(e) => write!(f, "{}", e), given what e renders to
fmt_StaticErr(inner) == inner

\* mutant: writeln! where write! was meant
fmt_NoMatchingRequest_ln(seq) ==
    <<"R","e","c","e","i","v","e","d"," ","r","e","p","l","y"," ","w","i","t","h"," ","n","o","n","-","m","a","t","c","h","i","n","g"," ","s","e","q","u","e","n","c","e"," ">>
        \o fmt_uint(seq) \o <<"\n">>

\* Self::NoMatchingRequest(seq) => write!(f, "... sequence {}", seq)
fmt_NoMatchingRequest(seq) ==
    <<"R","e","c","e","i","v","e","d"," ","r","e","p","l","y"," ","w","i","t","h"," ","n","o","n","-","m","a","t","c","h","i","n","g"," ","s","e","q","u","e","n","c","e"," ">>
        \o fmt_uint(seq)

\* mutant: the two opcodes are passed in the other order
fmt_XProtocol_swapped(e) ==
    <<"A","n"," ","X","1","1"," ","e","r","r","o","r"," ","o","f"," ","t","y","p","e"," ">>
        \o ErrorCode_fmt(e.error_code)
        \o <<" ","o","c","c","u","r","r","e","d"," ","o","n"," ","a"," ","r","e","q","u","e","s","t"," ","o","f"," ","o","p","c","o","d","e"," ">>
        \o fmt_uint(e.minor_code) \o <<":">> \o fmt_uint(e.major_code)
        \o <<" ","a","n","d"," ","s","e","q","u","e","n","c","e"," ">>
        \o fmt_uint(e.sequence)

\* Self::XProtocol { .. } => write!(f, "An X11 error of type {} occurred on
\* a request of opcode {}:{} and sequence {}", error_code, major_code,
\* minor_code, sequence)
fmt_XProtocol(e) ==
    <<"A","n"," ","X","1","1"," ","e","r","r","o","r"," ","o","f"," ","t","y","p","e"," ">>
        \o ErrorCode_fmt(e.error_code)
        \o <<" ","o","c","c","u","r","r","e","d"," ","o","n"," ","a"," ","r","e","q","u","e","s","t"," ","o","f"," ","o","p","c","o","d","e"," ">>
        \o fmt_uint(e.major_code) \o <<":">> \o fmt_uint(e.minor_code)
        \o <<" ","a","n","d"," ","s","e","q","u","e","n","c","e"," ">>
        \o fmt_uint(e.sequence)

\* impl fmt::Display for BreadError
RECURSIVE BreadError_fmt(_)
BreadError_fmt(e) ==
    CASE e.tag = "StaticMsg" -> e.m
      [] e.tag = "Msg" -> e.m
      [] e.tag = "StaticErr" -> fmt_StaticErr(BreadError_fmt(e.e))
      [] e.tag = "UnableToParseConnection" ->
            <<"U","n","a","b","l","e"," ","t","o"," ","p","a","r","s","e"," ","X","1","1"," ","c","o","n","n","e","c","t","i","o","n"," ","n","a","m","e">>
      [] e.tag = "UnableToOpenConnection" ->
            <<"U","n","a","b","l","e"," ","t","o"," ","o","p","e","n"," ","c","o","n","n","e","c","t","i","o","n"," ","t","o"," ","X","1","1"," ","s","e","r","v","e","r">>
      [] e.tag = "FailedToConnect" ->
            <<"U","n","a","b","l","e"," ","t","o"," ","c","o","n","n","e","c","t"," ","t","o"," ","t","h","e"," ","X","1","1"," ","s","e","r","v","e","r",":"," ">>
                \o e.reason
      [] e.tag = "FailedToAuthorize" ->
            <<"A","u","t","h","o","r","i","z","a","t","i","o","n"," ","w","a","s"," ","r","e","j","e","c","t","e","d"," ","b","y"," ","t","h","e"," ","X","1","1"," ","s","e","r","v","e","r",":"," ">>
                \o e.reason
      [] e.tag = "BadObjectRead" ->
            <<"U","n","a","b","l","e"," ","t","o"," ","r","e","a","d"," ","o","b","j","e","c","t"," ","o","f"," ","t","y","p","e"," ","f","r","o","m"," ","b","y","t","e","s",":"," ">>
                \o (IF e.name = None THEN <<"U","n","k","n","o","w","n">> ELSE e.name.val)
      [] e.tag = "NoMatchingRequest" -> fmt_NoMatchingRequest(e.seq)
      [] e.tag = "ExtensionNotPresent" ->
            <<"E","x","t","e","n","s","i","o","n"," ","w","a","s"," ","n","o","t"," ","f","o","u","n","d"," ","o","n"," ","X"," ","s","e","r","v","e","r",":"," ">>
                \o e.ext
      [] e.tag = "XProtocol" -> fmt_XProtocol(e)
      [] e.tag = "ClosedConnection" ->
            <<"T","h","e"," ","X"," ","c","o","n","n","e","c","t","i","o","n"," ","c","l","o","s","e","d"," ","w","i","t","h","o","u","t"," ","o","u","r"," ","e","n","d"," ","o","f"," ","t","h","e"," ","c","o","n","n","e","c","t","i","o","n"," ","c","l","o","s","i","n","g","."," ","D","i","d"," ","y","o","u"," ","f","o","r","g","e","t"," ","t","o"," ","l","i","s","t","e","n"," ","f","o","r"," ","W","M","_","D","E","L","T","E","_","W","I","N","D","O","W","?">>
      [] e.tag = "LoadLibraryFailed" ->
            <<"F","a","i","l","e","d"," ","t","o"," ","l","o","a","d"," ","l","i","b","r","a","r","y",":"," ">>
                \o e.l
      [] e.tag = "Io" -> e.io.text

\* mutant: the provided default of Error::source, no cause for any variant
BreadError_source_default(e) == None

\* impl StdError for BreadError: fn source(&self)
BreadError_source(e) ==
    CASE e.tag = "StaticErr" -> Some(e.e)
      [] e.tag = "Io" -> Some(e.io)
      [] OTHER -> None

Ok(t) == [tag |-> "Ok", out |-> t]

\* format!("{}", err)
Fmt ==
    /\ text' = Ok(BreadError_fmt(err))
    /\ UNCHANGED <<err, cause, codeText>>

\* format!("{}", error_code) of an XProtocol value
FmtErrorCode ==
    /\ err.tag = "XProtocol"
    /\ codeText' = Ok(ErrorCode_fmt(err.error_code))
    /\ UNCHANGED <<err, text, cause>>

\* err.source()
Source ==
    /\ cause' = BreadError_source(err)
    /\ UNCHANGED <<err, text, codeText>>

\* BreadError::StaticErr(&err), a new value nothing was asked of yet
MakeStaticErr ==
    /\ Depth(err) < MaxDepth
    /\ err' = StaticErr(err)
    /\ text' = NotRendered
    /\ cause' = NotAsked
    /\ codeText' = NotRendered

(***************************************************************************)
(* BreadError::Io: shared ownership of the wrapped I/O error               *)
(***************************************************************************)
Slots == 1..MaxVals
\* a slot that holds no value
Empty == [tag |-> "Empty"]
\* BreadError::Io(Arc<IoError>): the Arc points at allocation obj; origin is
\* the conversion the value descends from
Io(obj, origin) == [tag |-> "Io", obj |-> obj, origin |-> origin]

\* impl From<IoError> for BreadError: Self::Io(Arc::new(io)) into slot s
FromIoError(s) ==
    /\ convs < MaxIo
    /\ vals[s] = Empty
    /\ allocs' = allocs + 1
    /\ convs' = convs + 1
    /\ heap' = heap \cup {allocs + 1}
    /\ strong' = Append(strong, 1)
    /\ vals' = [vals EXCEPT ![s] = Io(allocs + 1, convs + 1)]

\* mutant: the clone copies the I/O error into an allocation of its own
CloneDeep(s, t) ==
    /\ vals[s] # Empty
    /\ vals[t] = Empty
    /\ allocs < MaxIo + MaxVals
    /\ allocs' = allocs + 1
    /\ heap' = heap \cup {allocs + 1}
    /\ strong' = Append(strong, 1)
    /\ vals' = [vals EXCEPT ![t] = Io(allocs + 1, vals[s].origin)]
    /\ UNCHANGED convs

\* #[derive(Clone)] on Io(Arc<IoError>): Arc::clone of the value in slot s
\* into slot t
Clone(s, t) ==
    /\ vals[s] # Empty
    /\ vals[t] = Empty
    /\ strong' = [strong EXCEPT ![vals[s].obj] = @ + 1]
    /\ vals' = [vals EXCEPT ![t] = vals[s]]
    /\ UNCHANGED <<heap, allocs, convs>>

\* the value in slot s goes out of scope: Arc's drop releases one strong
\* reference and frees the I/O error with the last one
Drop(s) ==
    /\ vals[s] # Empty
    /\ strong' = [strong EXCEPT ![vals[s].obj] = @ - 1]
    /\ heap' = IF strong[vals[s].obj] = 1 THEN heap \ {vals[s].obj} ELSE heap
    /\ vals' = [vals EXCEPT ![s] = Empty]
    /\ UNCHANGED <<allocs, convs>>

(***************************************************************************)
(* Specifications                                                          *)
(***************************************************************************)
\* a connection with its byte orders fixed and nothing received yet
DecodeInit ==
    /\ bytes = <<>>
    /\ host \in ByteOrders
    /\ session \in SessionOrders
    /\ decoded = NotCalled
    /\ err = [tag |-> "ClosedConnection"]
    /\ text = NotRendered
    /\ cause = NotAsked
    /\ codeText = NotRendered
    /\ vals = [s \in Slots |-> Empty]
    /\ strong = <<>>
    /\ heap = {}
    /\ allocs = 0
    /\ convs = 0

DecodeNext ==
    \/ DecodeLonger /\ UNCHANGED <<renderVars, arcVars>>
    \/ DecodeShorter /\ UNCHANGED <<renderVars, arcVars>>
    \/ DecodeChanged /\ UNCHANGED <<renderVars, arcVars>>

SpecDecode == DecodeInit /\ [][DecodeNext]_vars

\* some failure value, of which nothing was asked yet
RenderInit ==
    /\ err \in BaseErrors
    /\ text = NotRendered
    /\ cause = NotAsked
    /\ codeText = NotRendered
    /\ bytes = <<>>
    /\ host = "little"
    /\ session = "little"
    /\ decoded = NotCalled
    /\ vals = [s \in Slots |-> Empty]
    /\ strong = <<>>
    /\ heap = {}
    /\ allocs = 0
    /\ convs = 0

RenderNext ==
    \/ Fmt /\ UNCHANGED <<decodeVars, arcVars>>
    \/ FmtErrorCode /\ UNCHANGED <<decodeVars, arcVars>>
    \/ Source /\ UNCHANGED <<decodeVars, arcVars>>
    \/ MakeStaticErr /\ UNCHANGED <<decodeVars, arcVars>>

SpecRender == RenderInit /\ [][RenderNext]_vars

\* no I/O error converted yet
ArcInit ==
    /\ vals = [s \in Slots |-> Empty]
    /\ strong = <<>>
    /\ heap = {}
    /\ allocs = 0
    /\ convs = 0
    /\ bytes = <<>>
    /\ host = "little"
    /\ session = "little"
    /\ decoded = NotCalled
    /\ err = [tag |-> "ClosedConnection"]
    /\ text = NotRendered
    /\ cause = NotAsked
    /\ codeText = NotRendered

ArcNext ==
    \/ \E s \in Slots : FromIoError(s) /\ UNCHANGED <<decodeVars, renderVars>>
    \/ \E s, t \in Slots : Clone(s, t) /\ UNCHANGED <<decodeVars, renderVars>>
    \/ \E s \in Slots : Drop(s) /\ UNCHANGED <<decodeVars, renderVars>>

SpecArc == ArcInit /\ [][ArcNext]_vars

(***************************************************************************)
(* Claims about the wire decoder (checked under SpecDecode)                *)
(***************************************************************************)
\* the 16-bit value two adjacent bytes hold when read in byte order o
U16In(o, b, off) ==
    IF o = "little" THEN At(b, off) + 256 * At(b, off + 1)
    ELSE 256 * At(b, off) + At(b, off + 1)

KeyOffsets == {1, 2, 3, 8, 9, 10}

\* C1 (as stated): decoding a 32-byte buffer yields an XProtocol value with
\* error_code = b[1], major_code = b[10], sequence = the 16-bit value of bytes
\* 2-3 and minor_code = the full 16-bit value of bytes 8-9, also above 255.
C1_MinorIsFull16Bit ==
    (Len(bytes) = 32 /\ decoded # NotCalled) =>
        /\ decoded.tag = "XProtocol"
        /\ decoded.error_code = At(bytes, 1)
        /\ decoded.major_code = At(bytes, 10)
        /\ decoded.sequence = U16In(host, bytes, 2)
        /\ decoded.minor_code = U16In(host, bytes, 8)

\* C1 (amended): decoding a 32-byte buffer yields an XProtocol value with
\* error_code = b[1], major_code = b[10], sequence = the 16-bit value of bytes
\* 2-3 read in the host's byte order, and minor_code = the low eight bits of
\* the 16-bit value of bytes 8-9 read in the host's byte order.
C1_MinorIsLow8Bits ==
    (Len(bytes) = 32 /\ decoded # NotCalled) =>
        /\ decoded.tag = "XProtocol"
        /\ decoded.error_code = At(bytes, 1)
        /\ decoded.major_code = At(bytes, 10)
        /\ decoded.sequence = U16In(host, bytes, 2)
        /\ decoded.minor_code \in 0..255
        /\ \E hi \in 0..255 :
              U16In(host, bytes, 8) = 256 * hi + decoded.minor_code

\* a 32-byte buffer whose bytes 8-9 hold more than 255 has been decoded
C1_Witness ==
    /\ Len(bytes) = 32
    /\ decoded.tag = "XProtocol"
    /\ U16In(host, bytes, 8) > 255
    /\ At(bytes, 8) # At(bytes, 9)

\* C3: the decoded sequence and minor opcode are the values of bytes 2-3 and
\* 8-9 read in the session's byte order, whatever the host's byte order is.
C3_SessionByteOrder ==
    decoded.tag = "XProtocol" =>
        /\ decoded.sequence = U16In(session, bytes, 2)
        /\ decoded.minor_code = U16In(session, bytes, 8) % 256

\* C7: a buffer shorter than 11 bytes makes from_x_error end abnormally with
\* no value; a value that is returned is an XProtocol with exactly the four
\* fields, each within its type and taken from a buffer that held its offsets.
C7_NoPartialResult ==
    decoded # NotCalled =>
        /\ Len(bytes) < 11 => decoded = Panic
        /\ decoded # Panic =>
              /\ Len(bytes) >= 11
              /\ DOMAIN decoded =
                    {"tag", "error_code", "major_code", "minor_code", "sequence"}
              /\ decoded.tag = "XProtocol"
              /\ decoded.error_code = At(bytes, 1)
              /\ decoded.major_code = At(bytes, 10)
              /\ decoded.minor_code \in {At(bytes, 8), At(bytes, 9)}
              /\ decoded.sequence \in
                    {U16In(o, bytes, 2) : o \in ByteOrders}

\* a buffer one byte short of offset 10 was handed in and the call failed
C7_Witness ==
    /\ Len(bytes) = 10
    /\ decoded = Panic
    /\ \A off \in {1, 2, 3, 8, 9} : At(bytes, off) # 0

\* C9: two buffers of at least 11 bytes that agree on offsets 1, 2, 3, 8, 9
\* and 10 both decode without failing, to the same XProtocol value, whatever
\* their lengths and their other bytes are.
C9_OnlySixOffsetsMatter ==
    [][(/\ decoded # NotCalled
        /\ Len(bytes) >= 11
        /\ Len(bytes') >= 11
        /\ \A off \in KeyOffsets : At(bytes, off) = At(bytes', off))
       => (decoded.tag = "XProtocol" /\ decoded' = decoded)]_vars

\* a 12-byte buffer with non-zero bytes at offsets 0, 4 and 11 was decoded
C9_Witness ==
    /\ Len(bytes) = 12
    /\ decoded.tag = "XProtocol"
    /\ At(bytes, 0) = 200
    /\ At(bytes, 4) = 1
    /\ At(bytes, 11) = 200

(***************************************************************************)
(* Claims about rendering and causes (checked under SpecRender)            *)
(***************************************************************************)
\* the names of codes 1..17 as the protocol lists them
ProtocolNames ==
    <<<<"R","e","q","u","e","s","t">>,
      <<"V","a","l","u","e">>,
      <<"W","i","n","d","o","w">>,
      <<"P","i","x","m","a","p">>,
      <<"A","t","o","m">>,
      <<"C","u","r","s","o","r">>,
      <<"F","o","n","t">>,
      <<"M","a","t","c","h">>,
      <<"D","r","a","w","a","b","l","e">>,
      <<"A","c","c","e","s","s">>,
      <<"A","l","l","o","c">>,
      <<"C","o","l","o","r","m","a","p">>,
      <<"G","C","o","n","t","e","x","t">>,
      <<"I","D","C","h","o","i","c","e">>,
      <<"N","a","m","e">>,
      <<"L","e","n","g","t","h">>,
      <<"I","m","p","l","e","m","e","n","t","a","t","i","o","n">>>>

\* t is the decimal numeral of v: digits only, no leading zero, value v
IsDecimalOf(t, v) ==
    LET val(c) == CHOOSE d \in 0..9 : DigitChars[d + 1] = c
        pow[k \in 0..5] == IF k = 0 THEN 1 ELSE 10 * pow[k - 1]
        sum[k \in 0..Len(t)] ==
            IF k = 0 THEN 0 ELSE 10 * sum[k - 1] + val(t[k])
    IN  /\ Len(t) \in 1..5
        /\ \A k \in 1..Len(t) : \E d \in 0..9 : DigitChars[d + 1] = t[k]
        /\ Len(t) > 1 => t[1] # "0"
        /\ sum[Len(t)] = v

\* the first position at or after from where needle occurs in hay, 0 if none
FindFrom(hay, needle, from) ==
    LET hits == {i \in from..(Len(hay) - Len(needle) + 1) :
                    SubSeq(hay, i, i + Len(needle) - 1) = needle}
    IN  IF hits = {} THEN 0 ELSE CHOOSE i \in hits : \A j \in hits : i <= j

\* the needles occur in hay one after the other, without overlapping
RECURSIVE ContainsInOrderFrom(_, _, _)
ContainsInOrderFrom(hay, needles, from) ==
    IF needles = <<>> THEN TRUE
    ELSE LET at == FindFrom(hay, Head(needles), from)
         IN  /\ at # 0
             /\ ContainsInOrderFrom(hay, Tail(needles), at + Len(Head(needles)))

LineBreaks == {"\n", "\r"}
CountLineBreaks(t) == Cardinality({k \in 1..Len(t) : t[k] \in LineBreaks})

\* the value a chain of StaticErr references ends in
RECURSIVE Innermost(_)
Innermost(e) == IF e.tag = "StaticErr" THEN Innermost(e.e) ELSE e

\* the string a value carries: message, reason, type name, extension name,
\* library name, or the text of the wrapped I/O error; empty if it carries none
PayloadText(e) ==
    CASE e.tag \in {"StaticMsg", "Msg"} -> e.m
      [] e.tag \in {"FailedToConnect", "FailedToAuthorize"} -> e.reason
      [] e.tag = "BadObjectRead" -> IF e.name = None THEN <<>> ELSE e.name.val
      [] e.tag = "ExtensionNotPresent" -> e.ext
      [] e.tag = "LoadLibraryFailed" -> e.l
      [] e.tag = "Io" -> e.io.text
      [] OTHER -> <<>>

\* C2: an ErrorCode renders as the v-th protocol name (Request, ..., GContext,
\* ..., Implementation) for v in 1..17 and as the decimal numeral of v for
\* every other byte.
C2_ErrorCodeNames ==
    codeText # NotRendered =>
        LET v == err.error_code
        IN  IF v \in 1..17 THEN codeText.out = ProtocolNames[v]
            ELSE IsDecimalOf(codeText.out, v)

\* C2, every code but 13: the same statement with code 13 left aside
C2_AllButGContext ==
    (codeText # NotRendered /\ err.error_code # 13) =>
        LET v == err.error_code
        IN  IF v \in 1..17 THEN codeText.out = ProtocolNames[v]
            ELSE IsDecimalOf(codeText.out, v)

\* C4: an XProtocol value renders to text that contains, one after the other,
\* the rendering of its error code, its major opcode, its minor opcode and
\* its sequence number, each number in decimal.
C4_XProtocolFieldsInOrder ==
    (text # NotRendered /\ err.tag = "XProtocol") =>
        ContainsInOrderFrom(text.out,
            <<ErrorCode_fmt(err.error_code), fmt_uint(err.major_code),
              fmt_uint(err.minor_code), fmt_uint(err.sequence)>>, 1)

\* the scenario's value (Match, 55, 0, 12) has been rendered
C4_Witness ==
    /\ text # NotRendered
    /\ err.tag = "XProtocol"
    /\ err.error_code = 8 /\ err.major_code = 55
    /\ err.minor_code = 0 /\ err.sequence = 12
    /\ ContainsInOrderFrom(text.out,
          <<<<"M","a","t","c","h">>, <<"5", "5">>, <<"0">>, <<"1", "2">>>>, 1)

\* C5 (as stated): whatever the variant and its payload, the rendered text
\* holds no line-break character (so it does not end with a newline either).
C5_AlwaysOneLine ==
    text # NotRendered => CountLineBreaks(text.out) = 0

\* C5 (amended): the rendered text holds exactly the line breaks of the
\* string the value carries (through StaticErr references): none is added by
\* the rendering, so a value with no string, or with a string free of line
\* breaks, renders to one line with no trailing newline.
C5_OnlyPayloadLineBreaks ==
    text # NotRendered =>
        /\ CountLineBreaks(text.out) = CountLineBreaks(PayloadText(Innermost(err)))
        /\ (text.out # <<>> /\ text.out[Len(text.out)] \in LineBreaks) =>
              LET p == PayloadText(Innermost(err))
              IN  p # <<>> /\ p[Len(p)] \in LineBreaks

\* an extension name that holds a line break was rendered: the text holds
\* that one line break and does not end with it
C5_Witness ==
    /\ text # NotRendered
    /\ err.tag = "ExtensionNotPresent"
    /\ CountLineBreaks(err.ext) = 1
    /\ CountLineBreaks(text.out) = 1
    /\ text.out[Len(text.out)] \notin LineBreaks

\* C8: StaticErr(e) renders to exactly the text e renders to, also through a
\* chain of StaticErr references of any depth built.
C8_StaticErrRendersAsReferent ==
    (text # NotRendered /\ err.tag = "StaticErr") =>
        /\ text.out = BreadError_fmt(err.e)
        /\ text.out = BreadError_fmt(Innermost(err))

\* a chain of two StaticErr references to an XProtocol value was rendered
C8_Witness ==
    /\ text # NotRendered
    /\ Depth(err) = 2
    /\ Innermost(err).tag = "XProtocol"

\* the causes met when source() is followed from e (an I/O error, which this
\* crate does not define, ends the chain)
RECURSIVE SourceChain(_)
SourceChain(e) ==
    LET c == BreadError_source(e)
    IN  IF c = None THEN <<>>
        ELSE IF c.val.tag = "IoError" THEN <<c.val>>
        ELSE <<c.val>> \o SourceChain(c.val)

\* C10: source() is the referenced value for StaticErr, the wrapped I/O error
\* for Io and absent for every other variant; following it ends after as many
\* steps as there are StaticErr references (one more for Io); and a StaticErr
\* renders as its cause renders.
C10_Source ==
    cause # NotAsked =>
        /\ err.tag = "StaticErr" => cause = Some(err.e)
        /\ err.tag = "Io" => cause = Some(err.io)
        /\ err.tag \notin {"StaticErr", "Io"} => cause = None
        /\ Len(SourceChain(err)) =
              Depth(err) + (IF Innermost(err).tag = "Io" THEN 1 ELSE 0)
        /\ (err.tag = "StaticErr" /\ text # NotRendered) =>
              text.out = BreadError_fmt(cause.val)

\* the cause of a StaticErr that refers to a StaticErr of an Io was asked
\* for, and the value was rendered
C10_Witness ==
    /\ cause # NotAsked
    /\ text # NotRendered
    /\ Depth(err) = 2
    /\ Innermost(err).tag = "Io"
    /\ Len(SourceChain(err)) = 3

(***************************************************************************)
(* Claims about the wrapped I/O error (checked under SpecArc)              *)
(***************************************************************************)
Live == {s \in Slots : vals[s] # Empty}

\* C6: however the Io values are cloned and dropped, each conversion has put
\* exactly one I/O error on the heap and no clone has added another; all live
\* values that descend from one conversion point at that one object; and the
\* object is on the heap while any of them is alive.
C6_OneSharedIoError ==
    /\ allocs = convs
    /\ \A s \in Live : vals[s].obj = vals[s].origin
    /\ \A s, t \in Live :
          vals[s].origin = vals[t].origin => vals[s].obj = vals[t].obj
    /\ \A s \in Live : vals[s].obj \in heap /\ strong[vals[s].obj] >= 1

\* the first I/O error was freed with its last value; the second is shared
\* by three values
C6_Witness ==
    /\ convs = 2
    /\ heap = {2}
    /\ Cardinality({s \in Live : vals[s].obj = 2}) = 3
    /\ strong[2] = 3

====
